---------------------------- MODULE Spec2Model ----------------------------
(***************************************************************************)
(* A model of scraper.py: the retry-over-proxy loop of                     *)
(* scrape_google_search, the per-item extraction (name truncation, phone   *)
(* regex, duplicate check) and the slug used for the output file name.     *)
(*                                                                         *)
(* Strings are sequences of one-character strings.  An optional value      *)
(* (Python's None or a str) is a record [has, val].                        *)
(***************************************************************************)
EXTENDS Integers, Sequences, FiniteSets, TLC

VARIABLES
    query,          \* the argument of scrape_google_search
    results,        \* the results list (line 59)
    attempt,        \* loop variable of the retry loop (line 66), -1 before it
    proxy_url,      \* proxy drawn for the current attempt
    pc,             \* position in the function
    browsers,       \* browser sessions open; the session of attempt a is a + 1
    page_num,       \* loop variable of the pagination loop, -1 when the loop is entered
    url,            \* the URL last navigated to
    items_left,     \* items of the current page not yet processed
    name,           \* name computed for the last item with a name tag (line 128)
    text_content,   \* text of that item (line 134)
    phone,          \* phone computed for that item (lines 133-137)
    safe_name,      \* slug computed at line 169
    files,          \* the open(filepath, "w") calls of this call, in order
    ret,            \* the value returned
    nav_count,      \* history: page.goto calls made by this call
    visited,        \* history: start values navigated to in the current attempt
    pages_parsed,   \* history: pages the current attempt has parsed completely
    n_failed,       \* history: attempts that ended in an exception
    candidates,     \* history: entries built at lines 150-157, in order
    budget          \* items with a name tag that the pages of this call still hold

vars == << query, results, attempt, proxy_url, pc, browsers, page_num, url,
           items_left, name, text_content, phone, safe_name, files, ret,
           nav_count, visited, pages_parsed, n_failed, candidates, budget >>

-----------------------------------------------------------------------------
(* Program constants *)

MAX_PAGES == 3
RETRIES == 3
RESULTS_PER_PAGE == 20
NAME_LIMIT == 50

(* Bounds of the model *)

MaxItemsPerPage == 1
MaxItemsTotal == 2
MaxItemsFair == 1
MaxQueryLen == 3
MaxTextLen == 4

-----------------------------------------------------------------------------
(* Characters and strings *)

None == [has |-> FALSE, val |-> << >>]
Some(s) == [has |-> TRUE, val |-> s]

Digits == {"0", "1", "2", "3", "4", "5", "6", "7", "8", "9"}
LowerLetters == << "a", "b", "c", "d", "e", "f", "g", "h", "i", "j", "k", "l", "m",
                   "n", "o", "p", "q", "r", "s", "t", "u", "v", "w", "x", "y", "z" >>
UpperLetters == << "A", "B", "C", "D", "E", "F", "G", "H", "I", "J", "K", "L", "M",
                   "N", "O", "P", "Q", "R", "S", "T", "U", "V", "W", "X", "Y", "Z" >>
Whitespace == {" "}

Range(s) == {s[i] : i \in 1..Len(s)}

\* str.lower() on one character
LowerChar(c) ==
    IF \E i \in 1..26 : UpperLetters[i] = c
    THEN LowerLetters[CHOOSE i \in 1..26 : UpperLetters[i] = c]
    ELSE c

\* str.lower()
Lower(s) == [i \in 1..Len(s) |-> LowerChar(s[i])]

\* str.replace(" ", "+")
ReplaceSpaces(s) == [i \in 1..Len(s) |-> IF s[i] = " " THEN "+" ELSE s[i]]

\* str.strip()
RECURSIVE Strip(_)
Strip(s) ==
    IF s = << >> THEN s
    ELSE IF Head(s) \in Whitespace THEN Strip(Tail(s))
    ELSE IF s[Len(s)] \in Whitespace THEN Strip(SubSeq(s, 1, Len(s) - 1))
    ELSE s

-----------------------------------------------------------------------------
(* PHONE_REGEX:                                                            *)
(*   (\+?\d{1,3}[-.\s]?\(?\d{1,4}\)?[-.\s]?\d{1,4}[-.\s]?\d{1,9})          *)
(* as a sequence of greedy bounded repetitions of character classes.       *)

Separators == {"-", "."} \cup Whitespace

PHONE_REGEX ==
    << [cls |-> {"+"},      min |-> 0, max |-> 1],
       [cls |-> Digits,     min |-> 1, max |-> 3],
       [cls |-> Separators, min |-> 0, max |-> 1],
       [cls |-> {"("},      min |-> 0, max |-> 1],
       [cls |-> Digits,     min |-> 1, max |-> 4],
       [cls |-> {")"},      min |-> 0, max |-> 1],
       [cls |-> Separators, min |-> 0, max |-> 1],
       [cls |-> Digits,     min |-> 1, max |-> 4],
       [cls |-> Separators, min |-> 0, max |-> 1],
       [cls |-> Digits,     min |-> 1, max |-> 9] >>

\* How many characters of t from position i on lie in cls, at most max.
RECURSIVE RunLength(_, _, _, _)
RunLength(t, i, cls, max) ==
    IF max = 0 \/ i > Len(t) \/ t[i] \notin cls THEN 0
    ELSE 1 + RunLength(t, i + 1, cls, max - 1)

\* The backtracking matcher: the position after the match of elements k.. of
\* PHONE_REGEX at position i of t that the greedy search finds first; 0 when
\* there is none.
RECURSIVE MatchFrom(_, _, _), MatchCount(_, _, _, _)
MatchFrom(t, i, k) ==
    IF k > Len(PHONE_REGEX) THEN i
    ELSE MatchCount(t, i, k, RunLength(t, i, PHONE_REGEX[k].cls, PHONE_REGEX[k].max))

MatchCount(t, i, k, c) ==
    IF c < PHONE_REGEX[k].min THEN 0
    ELSE LET r == MatchFrom(t, i + c, k + 1)
         IN  IF r # 0 THEN r ELSE MatchCount(t, i, k, c - 1)

\* PHONE_REGEX.search(t): the leftmost match, as an optional string.
RegexSearch(t) ==
    LET starts == {s \in 1..Len(t) : MatchFrom(t, s, 1) # 0}
    IN  IF starts = {} THEN None
        ELSE LET s == CHOOSE x \in starts : \A y \in starts : x <= y
             IN  Some(SubSeq(t, s, MatchFrom(t, s, 1) - 1))

\* Lines 133-137.
ExtractPhone(text) ==
    LET match == RegexSearch(text)
    IN  IF match.has THEN Some(Strip(match.val)) ELSE None

-----------------------------------------------------------------------------
(* Name truncation, lines 128-130 *)

Ellipsis == << ".", ".", "." >>

\* (OffByOne: >= instead of >)
TruncateNameOffByOne(text) ==
    IF Len(text) >= NAME_LIMIT THEN SubSeq(text, 1, NAME_LIMIT) \o Ellipsis ELSE text
TruncateName(text) ==
    IF Len(text) > NAME_LIMIT THEN SubSeq(text, 1, NAME_LIMIT) \o Ellipsis ELSE text

-----------------------------------------------------------------------------
(* Slug, line 169: re.sub(r'[^a-z0-9\-]+', '-', query.lower()) *)

SlugChars == Range(LowerLetters) \cup Digits \cup {"-"}

\* re.sub: every maximal run of characters outside SlugChars becomes one "-".
RECURSIVE SubRuns(_, _)
SubRuns(s, in_run) ==
    IF s = << >> THEN << >>
    ELSE IF Head(s) \in SlugChars THEN << Head(s) >> \o SubRuns(Tail(s), FALSE)
    ELSE IF in_run THEN SubRuns(Tail(s), TRUE)
    ELSE << "-" >> \o SubRuns(Tail(s), TRUE)

\* (NoLower: without query.lower())
SlugNoLower(q) == SubRuns(q, FALSE)
Slug(q) == SubRuns(Lower(q), FALSE)

-----------------------------------------------------------------------------
(* Inputs *)

\* proxies.txt, lines 35-36
PROXIES == {"socks5://10.0.0.1:1080", "socks5://10.0.0.2:1080"}

Repeat(c, n) == [i \in 1..n |-> c]

\* Texts of the name tag (name_tag.get_text(strip=True)): empty, of
\* exactly NAME_LIMIT characters, and two longer ones that agree on their
\* first NAME_LIMIT characters.
EmptyHeading == << >>
ExactHeading == Repeat("a", NAME_LIMIT)
LongHeadingX == Repeat("a", NAME_LIMIT) \o << "x" >>
LongHeadingY == Repeat("a", NAME_LIMIT) \o << "y", "z" >>
Headings == {EmptyHeading, ExactHeading, LongHeadingX, LongHeadingY}

\* Texts of an item (item.get_text(" ", strip=True)): without and with a match
\* of PHONE_REGEX.
PlainText == << "o", "p", "e", "n" >>
PhoneText == << "t", "e", "l", " ", "0", "5", "3", "7" >>

\* The items a page can hold: without an h3 or span (line 124), or with one.
Items ==
    {[has_tag |-> FALSE, name_text |-> << >>, text_content |-> << >>]}
    \cup {[has_tag |-> TRUE, name_text |-> h, text_content |-> PlainText] :
            h \in Headings}
    \cup {[has_tag |-> TRUE, name_text |-> ExactHeading, text_content |-> PhoneText]}

MainQueries == { << "c", "a", "f", "e", " ", "R", "a", "b", "a", "t" >> }

\* datetime.now().strftime("%Y-%m-%d-%H-%M"), line 170
Timestamps ==
    { << "2", "0", "2", "6", "-", "0", "1", "-", "0", "2", "-", "1", "0", "-", "0", "0" >> }

SearchInfix == << "-", "s", "e", "a", "r", "c", "h", "-" >>
JsonSuffix == << ".", "j", "s", "o", "n" >>
Failed == << "f", "a", "i", "l", "e", "d" >>

\* Line 171
FileName(slug, now) == slug \o SearchInfix \o now \o JsonSuffix

NotReturned == [returned |-> FALSE, results |-> << >>, filename |-> << >>]
NoUrl == [q |-> << >>, start |-> -1]

Min(a, b) == IF a < b THEN a ELSE b

-----------------------------------------------------------------------------
(* scrape_google_search *)

Start ==
    /\ query \in MainQueries
    /\ results = << >>
    /\ attempt = -1
    /\ proxy_url = ""
    /\ pc = "for_attempt"
    /\ browsers = {}
    /\ page_num = -1
    /\ url = NoUrl
    /\ items_left = 0
    /\ name = << >>
    /\ text_content = << >>
    /\ phone = None
    /\ safe_name = << >>
    /\ files = << >>
    /\ ret = NotReturned
    /\ nav_count = 0
    /\ visited = << >>
    /\ pages_parsed = 0
    /\ n_failed = 0
    /\ candidates = << >>

Init == Start /\ budget = MaxItemsTotal

\* Termination does not depend on what the pages hold: it is examined on pages
\* that hold at most MaxItemsFair items with a name tag.
FairInit == Start /\ budget = MaxItemsFair

\* range(RETRIES) has another value to give (OffByOne: one attempt too many)
MoreAttemptsOffByOne == attempt + 1 <= RETRIES
MoreAttempts == attempt + 1 < RETRIES

\* range(0, MAX_PAGES) has another value to give (Short: one page too few)
MorePagesShort == page_num + 1 < MAX_PAGES - 1
MorePages == page_num + 1 < MAX_PAGES

\* Line 160: any(r['name'] == entry['name'] and r['phone'] == entry['phone']
\*               for r in results)
\* (WholeEntry: compares every field; NameOnly: compares the name alone)
IsDuplicateWholeEntry(entry, rs) == \E i \in 1..Len(rs) : rs[i] = entry
IsDuplicateNameOnly(entry, rs) == \E i \in 1..Len(rs) : rs[i].name = entry.name
IsDuplicate(entry, rs) ==
    \E i \in 1..Len(rs) : rs[i].name = entry.name /\ rs[i].phone = entry.phone

\* An exception leaves the `with sync_playwright()` block (line 71), which stops
\* Playwright and with it the browser it launched, and reaches line 180.
\* Leaving the block is taken not to raise itself.
\* (KeepsBrowser: the browser outlives the exception)
ThrowKeepsBrowser ==
    /\ pc' = "except"
    /\ n_failed' = n_failed + 1
    /\ UNCHANGED browsers
Throw ==
    /\ pc' = "except"
    /\ n_failed' = n_failed + 1
    /\ browsers' = {}

\* Lines 66-68: the next attempt draws a proxy.
NextAttempt ==
    /\ pc = "for_attempt"
    /\ MoreAttempts
    /\ attempt' = attempt + 1
    /\ \E p \in PROXIES : proxy_url' = p
    /\ pc' = "launch"
    /\ visited' = << >>
    /\ pages_parsed' = 0
    /\ UNCHANGED << query, results, browsers, page_num, url, items_left, name,
                    text_content, phone, safe_name, files, ret, nav_count,
                    n_failed, candidates, budget >>

\* Lines 71-82: Playwright starts and the browser is launched through the proxy.
Launch ==
    /\ pc = "launch"
    /\ browsers' = browsers \cup {attempt + 1}
    /\ page_num' = -1
    /\ pc' = "page_loop"
    /\ UNCHANGED << query, results, attempt, proxy_url, url, items_left, name,
                    text_content, phone, safe_name, files, ret, nav_count,
                    visited, pages_parsed, n_failed, candidates, budget >>

LaunchRaises ==
    /\ pc = "launch"
    /\ Throw
    /\ UNCHANGED << query, results, attempt, proxy_url, page_num, url, items_left,
                    name, text_content, phone, safe_name, files, ret, nav_count,
                    visited, pages_parsed, candidates, budget >>

\* Lines 86-119: the next page is navigated to and its items are selected.
Goto ==
    /\ pc = "page_loop"
    /\ MorePages
    /\ page_num' = page_num + 1
    /\ url' = [q |-> ReplaceSpaces(query), start |-> page_num' * RESULTS_PER_PAGE]
    /\ nav_count' = nav_count + 1
    /\ visited' = Append(visited, url'.start)
    /\ \E n \in 0..Min(MaxItemsPerPage, budget) : items_left' = n
    /\ pc' = "items"
    /\ UNCHANGED << query, results, attempt, proxy_url, browsers, name,
                    text_content, phone, safe_name, files, ret, pages_parsed,
                    n_failed, candidates, budget >>

\* page.goto raises (a timeout, a proxy error).
GotoRaises ==
    /\ pc = "page_loop"
    /\ MorePages
    /\ page_num' = page_num + 1
    /\ url' = [q |-> ReplaceSpaces(query), start |-> page_num' * RESULTS_PER_PAGE]
    /\ nav_count' = nav_count + 1
    /\ visited' = Append(visited, url'.start)
    /\ Throw
    /\ UNCHANGED << query, results, attempt, proxy_url, items_left, name,
                    text_content, phone, safe_name, files, ret, pages_parsed,
                    candidates, budget >>

\* Lines 121-163: one iteration of `for item in items`.  The entry's latitude,
\* longitude and image (lines 139-148) are read by nothing in the function and
\* are left out of the entry.
ParseItem ==
    /\ pc = "items"
    /\ items_left > 0
    /\ \E it \in Items :
        IF ~it.has_tag
           THEN UNCHANGED << name, text_content, phone, results, candidates, budget >>
           ELSE /\ name' = TruncateName(it.name_text)
                /\ text_content' = it.text_content
                /\ phone' = ExtractPhone(text_content')
                /\ LET entry == [name |-> name', phone |-> phone',
                                 source_page |-> page_num + 1]
                   IN  /\ results' = IF ~IsDuplicate(entry, results) /\ name' # << >>
                                     THEN Append(results, entry)
                                     ELSE results
                       /\ candidates' = Append(candidates,
                              [entry |-> entry, name_text |-> it.name_text])
                       /\ budget' = budget - 1
    /\ items_left' = items_left - 1
    /\ UNCHANGED << query, attempt, proxy_url, pc, browsers, page_num, url,
                    safe_name, files, ret, nav_count, visited, pages_parsed,
                    n_failed >>

\* page.content(), the parser or an item's extraction raises.
ParseRaises ==
    /\ pc = "items"
    /\ Throw
    /\ UNCHANGED << query, results, attempt, proxy_url, page_num, url, items_left,
                    name, text_content, phone, safe_name, files, ret, nav_count,
                    visited, pages_parsed, candidates, budget >>

\* The item loop of a page ends.
EndItems ==
    /\ pc = "items"
    /\ items_left = 0
    /\ pages_parsed' = pages_parsed + 1
    /\ pc' = "page_loop"
    /\ UNCHANGED << query, results, attempt, proxy_url, browsers, page_num, url,
                    items_left, name, text_content, phone, safe_name, files, ret,
                    nav_count, visited, n_failed, candidates, budget >>

\* Line 166, after the last page.
CloseBrowser ==
    /\ pc = "page_loop"
    /\ ~MorePages
    /\ browsers' = browsers \ {attempt + 1}
    /\ pc' = "save"
    /\ UNCHANGED << query, results, attempt, proxy_url, page_num, url, items_left,
                    name, text_content, phone, safe_name, files, ret, nav_count,
                    visited, pages_parsed, n_failed, candidates, budget >>

CloseRaises ==
    /\ pc = "page_loop"
    /\ ~MorePages
    /\ Throw
    /\ UNCHANGED << query, results, attempt, proxy_url, page_num, url, items_left,
                    name, text_content, phone, safe_name, files, ret, nav_count,
                    visited, pages_parsed, candidates, budget >>

\* Lines 169-175: the file name is built and open(filepath, "w") creates the file.
OpenFile ==
    /\ pc = "save"
    /\ safe_name' = Slug(query)
    /\ \E now \in Timestamps :
        files' = Append(files, [filename |-> FileName(safe_name', now),
                                complete |-> FALSE, data |-> << >>,
                                attempt |-> attempt, pages |-> pages_parsed])
    /\ pc' = "dump"
    /\ UNCHANGED << query, results, attempt, proxy_url, browsers, page_num, url,
                    items_left, name, text_content, phone, ret, nav_count,
                    visited, pages_parsed, n_failed, candidates, budget >>

\* open() raises: no file is created.
OpenRaises ==
    /\ pc = "save"
    /\ safe_name' = Slug(query)
    /\ Throw
    /\ UNCHANGED << query, results, attempt, proxy_url, page_num, url, items_left,
                    name, text_content, phone, files, ret, nav_count, visited,
                    pages_parsed, candidates, budget >>

\* Lines 176-178: json.dump writes the list, the file is closed, the call
\* returns (leaving the `with` block of line 71).
Dump ==
    /\ pc = "dump"
    /\ files' = [files EXCEPT ![Len(files)].complete = TRUE,
                              ![Len(files)].data = results]
    /\ ret' = [returned |-> TRUE, results |-> results,
               filename |-> files[Len(files)].filename]
    /\ pc' = "done"
    /\ UNCHANGED << query, results, attempt, proxy_url, browsers, page_num, url,
                    items_left, name, text_content, phone, safe_name, nav_count,
                    visited, pages_parsed, n_failed, candidates, budget >>

\* json.dump or the closing of the file raises: the file open() created stays,
\* with part of the list at most.
DumpRaises ==
    /\ pc = "dump"
    /\ Throw
    /\ UNCHANGED << query, results, attempt, proxy_url, page_num, url, items_left,
                    name, text_content, phone, safe_name, files, ret, nav_count,
                    visited, pages_parsed, candidates, budget >>

\* Lines 180-183: the exception is logged and the retry loop continues.
HandleException ==
    /\ pc = "except"
    /\ pc' = "for_attempt"
    /\ UNCHANGED << query, results, attempt, proxy_url, browsers, page_num, url,
                    items_left, name, text_content, phone, safe_name, files, ret,
                    nav_count, visited, pages_parsed, n_failed, candidates, budget >>

\* Line 185: the retry loop is exhausted.
\* (Partial: the accumulated list is returned instead of [])
ReturnFailedPartial ==
    /\ pc = "for_attempt"
    /\ ~MoreAttempts
    /\ ret' = [returned |-> TRUE, results |-> results, filename |-> Failed]
    /\ pc' = "done"
    /\ UNCHANGED << query, results, attempt, proxy_url, browsers, page_num, url,
                    items_left, name, text_content, phone, safe_name, files,
                    nav_count, visited, pages_parsed, n_failed, candidates, budget >>
ReturnFailed ==
    /\ pc = "for_attempt"
    /\ ~MoreAttempts
    /\ ret' = [returned |-> TRUE, results |-> << >>, filename |-> Failed]
    /\ pc' = "done"
    /\ UNCHANGED << query, results, attempt, proxy_url, browsers, page_num, url,
                    items_left, name, text_content, phone, safe_name, files,
                    nav_count, visited, pages_parsed, n_failed, candidates, budget >>

Next ==
    \/ NextAttempt
    \/ Launch
    \/ LaunchRaises
    \/ Goto
    \/ GotoRaises
    \/ ParseItem
    \/ ParseRaises
    \/ EndItems
    \/ CloseBrowser
    \/ CloseRaises
    \/ OpenFile
    \/ OpenRaises
    \/ Dump
    \/ DumpRaises
    \/ HandleException
    \/ ReturnFailed

Spec == Init /\ [][Next]_vars

\* Every step of the function is a step of one thread that keeps running:
\* navigation has a 60 s timeout (line 82) and the sleeps are finite.
FairSpec == FairInit /\ [][Next]_vars /\ WF_vars(Next)

-----------------------------------------------------------------------------
(* The slug alone: line 169 applied to a query *)

SlugAlphabet == {"a", "B", " ", "!", "-", "7"}

RECURSIVE StringsUpTo(_, _)
StringsUpTo(alphabet, n) ==
    IF n = 0 THEN {<< >>}
    ELSE LET shorter == StringsUpTo(alphabet, n - 1)
         IN  shorter \cup {Append(s, c) : s \in shorter, c \in alphabet}

RestaurantsInRabat ==
    << "R", "e", "s", "t", "a", "u", "r", "a", "n", "t", "s", " ", "I", "n", " ",
       "R", "a", "b", "a", "t", "!" >>

RestaurantsInRabatSlug ==
    << "r", "e", "s", "t", "a", "u", "r", "a", "n", "t", "s", "-", "i", "n", "-",
       "r", "a", "b", "a", "t" >>

SlugQueries == StringsUpTo(SlugAlphabet, MaxQueryLen) \cup {RestaurantsInRabat}

SlugInit ==
    /\ query \in SlugQueries
    /\ pc = "slug"
    /\ results = << >> /\ attempt = -1 /\ proxy_url = "" /\ browsers = {}
    /\ page_num = -1 /\ url = NoUrl /\ items_left = 0 /\ name = << >>
    /\ text_content = << >> /\ phone = None /\ safe_name = << >> /\ files = << >>
    /\ ret = NotReturned /\ nav_count = 0 /\ visited = << >> /\ pages_parsed = 0
    /\ n_failed = 0 /\ candidates = << >> /\ budget = 0

SlugStep ==
    /\ pc = "slug"
    /\ safe_name' = Slug(query)
    /\ pc' = "slug_done"
    /\ UNCHANGED << query, results, attempt, proxy_url, browsers, page_num, url,
                    items_left, name, text_content, phone, files, ret, nav_count,
                    visited, pages_parsed, n_failed, candidates, budget >>

SlugSpec == SlugInit /\ [][SlugStep]_vars

-----------------------------------------------------------------------------
(* The phone extraction alone: lines 133-137 applied to an item's text *)

PhoneAlphabet == {"+", "1", " ", "a"}

MoroccanNumber ==
    << "+", "2", "1", "2", " ", "5", " ", "3", "7", " ", "7", "7", " ", "1", "2",
       " ", "3", "4" >>

PhoneTexts ==
    StringsUpTo(PhoneAlphabet, MaxTextLen)
    \cup {MoroccanNumber, << "t", "e", "l", " " >> \o MoroccanNumber \o << " ", "x" >>}

PhoneInit ==
    /\ text_content \in PhoneTexts
    /\ pc = "phone"
    /\ query = << >> /\ results = << >> /\ attempt = -1 /\ proxy_url = ""
    /\ browsers = {} /\ page_num = -1 /\ url = NoUrl /\ items_left = 0
    /\ name = << >> /\ phone = None /\ safe_name = << >> /\ files = << >>
    /\ ret = NotReturned /\ nav_count = 0 /\ visited = << >> /\ pages_parsed = 0
    /\ n_failed = 0 /\ candidates = << >> /\ budget = 0

PhoneStep ==
    /\ pc = "phone"
    /\ phone' = ExtractPhone(text_content)
    /\ pc' = "phone_done"
    /\ UNCHANGED << query, results, attempt, proxy_url, browsers, page_num, url,
                    items_left, name, text_content, safe_name, files, ret,
                    nav_count, visited, pages_parsed, n_failed, candidates, budget >>

PhoneSpec == PhoneInit /\ [][PhoneStep]_vars

-----------------------------------------------------------------------------
(* Notions the properties are stated with *)

SameKey(a, b) == a.name = b.name /\ a.phone = b.phone

NoTwoShareKey(rs) ==
    \A i, j \in 1..Len(rs) : i # j => ~SameKey(rs[i], rs[j])

Holders(rs, e) == {j \in 1..Len(rs) : SameKey(rs[j], e)}

FirstCandidate(e) ==
    candidates[CHOOSE k \in 1..Len(candidates) :
                  /\ SameKey(candidates[k].entry, e)
                  /\ \A m \in 1..Len(candidates) :
                        SameKey(candidates[m].entry, e) => k <= m].entry

Succeeded == ret.returned /\ ret.filename # Failed

CompleteFiles == {i \in 1..Len(files) : files[i].complete}

IsPrefix(s, t) == Len(s) <= Len(t) /\ \A i \in 1..Len(s) : s[i] = t[i]

IsAlnum(c) == c \in Range(LowerLetters) \cup Digits
IsHyphen(c) == c = "-"
NotSlugChar(c) == ~(IsAlnum(LowerChar(c)) \/ IsHyphen(c))

\* Positions of q where a maximal run of characters that the slug replaces starts.
RunStarts(q) ==
    {i \in 1..Len(q) : NotSlugChar(q[i]) /\ (i = 1 \/ ~NotSlugChar(q[i - 1]))}

Contains(t, w) ==
    \E i \in 0..(Len(t) - Len(w)) : SubSeq(t, i + 1, i + Len(w)) = w

HasDigitRun(t, n) ==
    \E i \in 1..(Len(t) - n + 1) : \A k \in i..(i + n - 1) : t[k] \in Digits

-----------------------------------------------------------------------------
(* Properties *)

\* C1: a failed attempt discards its records: whenever an attempt has ended in
\* an exception, the results list is empty when the next attempt starts, and
\* when the call returns after the last attempt failed too.
C1_FailedAttemptDiscards ==
    (n_failed > 0 /\ pc \in {"for_attempt", "launch"}) => results = << >>

C4_NoDuplicates ==
    /\ NoTwoShareKey(results)
    /\ NoTwoShareKey(ret.results)
    /\ \A i \in 1..Len(files) : NoTwoShareKey(files[i].data)

C4_Witness ==
    /\ Succeeded
    /\ Len(candidates) = 2
    /\ candidates[1].entry.phone = None
    /\ candidates[1].entry.name # << >>
    /\ SameKey(candidates[1].entry, candidates[2].entry)
    /\ Len(ret.results) = 1

\* C5, as claimed: every candidate record has exactly one entry with its name
\* and phone in the results list.
C5_EveryCandidateRetained ==
    \A i \in 1..Len(candidates) :
        Cardinality(Holders(results, candidates[i].entry)) = 1

\* C5, amended: every candidate record with a non-empty name has exactly one
\* entry with its name and phone in the results list, and that entry is the
\* first candidate with that name and phone; a candidate with an empty name has
\* none.
C5_FirstOfEachKeyRetained ==
    \A i \in 1..Len(candidates) :
        LET e == candidates[i].entry
        IN  IF e.name = << >>
            THEN Holders(results, e) = {}
            ELSE /\ Cardinality(Holders(results, e)) = 1
                 /\ \A j \in Holders(results, e) : results[j] = FirstCandidate(e)

C5_Witness ==
    /\ Len(candidates) = 2
    /\ candidates[1].entry.phone.has
    /\ SameKey(candidates[1].entry, candidates[2].entry)
    /\ candidates[1].entry.source_page # candidates[2].entry.source_page
    /\ results = << candidates[1].entry >>

\* C6, as claimed: the slug holds only a-z, 0-9 and "-", neither starts nor
\* ends with "-", never holds "--", and "Restaurants In Rabat!" gives
\* "restaurants-in-rabat".
C6_SlugHasNoEdgeHyphens ==
    pc = "slug_done" =>
        /\ Range(safe_name) \subseteq SlugChars
        /\ safe_name # << >> =>
              (Head(safe_name) # "-" /\ safe_name[Len(safe_name)] # "-")
        /\ \A i \in 1..(Len(safe_name) - 1) :
              ~(safe_name[i] = "-" /\ safe_name[i + 1] = "-")
        /\ query = RestaurantsInRabat => safe_name = RestaurantsInRabatSlug

\* C6, amended: the slug holds only a-z, 0-9 and "-"; its letters and digits
\* are those of the lowercased query, in order; it holds one "-" for every "-"
\* of the query and one for every maximal run of other characters, also at the
\* start and at the end; "Restaurants In Rabat!" gives "restaurants-in-rabat-".
C6_SlugKeepsHyphens ==
    pc = "slug_done" =>
        /\ Range(safe_name) \subseteq SlugChars
        /\ SelectSeq(safe_name, IsAlnum) = SelectSeq(Lower(query), IsAlnum)
        /\ Len(SelectSeq(safe_name, IsHyphen))
              = Len(SelectSeq(query, IsHyphen)) + Cardinality(RunStarts(query))
        /\ (query # << >> /\ NotSlugChar(Head(query))) => Head(safe_name) = "-"
        /\ (query # << >> /\ NotSlugChar(query[Len(query)]))
              => safe_name[Len(safe_name)] = "-"
        /\ query = RestaurantsInRabat => safe_name = RestaurantsInRabatSlug \o << "-" >>

C6_Witness ==
    /\ pc = "slug_done"
    /\ query = RestaurantsInRabat
    /\ safe_name[Len(safe_name)] = "-"

\* C7: a text that contains "+212 5 37 77 12 34" gives exactly that string as
\* the phone, and a text without a run of 7 or more digits gives no phone.
C7_PhoneIsWholeNumber ==
    pc = "phone_done" =>
        /\ Contains(text_content, MoroccanNumber) => phone = Some(MoroccanNumber)
        /\ ~HasDigitRun(text_content, 7) => phone = None

\* C8: a heading longer than 50 characters is stored as its first 50
\* characters followed by "...", a heading of at most 50 characters unchanged;
\* every entry of the results list is such a stored candidate, and two headings
\* longer than 50 that agree on their first 50 characters (with the same phone)
\* have one entry between them.
C8_NameTruncation ==
    /\ \A i \in 1..Len(candidates) :
          LET h == candidates[i].name_text
              n == candidates[i].entry.name
          IN  IF Len(h) > 50
              THEN /\ Len(n) = 53
                   /\ \A k \in 1..50 : n[k] = h[k]
                   /\ \A k \in 51..53 : n[k] = "."
              ELSE n = h
    /\ \A j \in 1..Len(results) :
          \E i \in 1..Len(candidates) : candidates[i].entry = results[j]
    /\ \A i, j \in 1..Len(candidates) :
          LET a == candidates[i]
              b == candidates[j]
          IN  (/\ Len(a.name_text) > 50
               /\ Len(b.name_text) > 50
               /\ SubSeq(a.name_text, 1, 50) = SubSeq(b.name_text, 1, 50)
               /\ a.entry.phone = b.entry.phone)
              => Cardinality(Holders(results, a.entry)
                               \cup Holders(results, b.entry)) = 1

C8_Witness ==
    /\ Len(candidates) = 2
    /\ candidates[1].name_text = LongHeadingX
    /\ candidates[2].name_text = LongHeadingY
    /\ Len(results) = 1
    /\ Len(results[1].name) = 53

\* C9: at most one browser session is open at any moment; while an attempt is
\* in its pages its own session, and no other, is open; no session is open when
\* an attempt starts, after an exception, after the last page or at the return.
C9_SequentialSessions ==
    /\ Cardinality(browsers) <= 1
    /\ browsers \subseteq {attempt + 1}
    /\ pc \in {"page_loop", "items"} => browsers = {attempt + 1}
    /\ pc \in {"for_attempt", "launch", "except", "save", "dump", "done"}
          => browsers = {}

C9_Witness ==
    /\ attempt = 1
    /\ browsers = {2}
    /\ n_failed = 1
    /\ nav_count > 0

=============================================================================
